---- MODULE Spec2Model ----
(***************************************************************************)
(* MomentumMassElemKernel (src/src/MomentumMassElemKernel.C): the          *)
(* constructor, setup and execute of the unsteady mass / pressure-gradient *)
(* element kernel.                                                         *)
(*                                                                         *)
(* Numbers: the kernel computes in double; the model computes in exact     *)
(* rational arithmetic (a pair <<numerator, denominator>> in lowest terms, *)
(* denominator > 0), so rounding is not modelled.                          *)
(***************************************************************************)
EXTENDS Integers, Sequences, FiniteSets, TLC

(***************************************************************************)
(* Bounds of the model.                                                    *)
(***************************************************************************)
MaxCalls == 2
MaxDt == 2

(***************************************************************************)
(* AlgTraits of the element shape the kernel is instantiated for.          *)
(***************************************************************************)
nDim_ == 2
nodesPerElement_ == 2
numScvIp_ == 2

Dims == 0 .. (nDim_ - 1)
Nodes == 0 .. (nodesPerElement_ - 1)
Ips == 0 .. (numScvIp_ - 1)
Rows == 0 .. (nodesPerElement_ * nDim_ - 1)
Threads == {1, 2}

(***************************************************************************)
(* double arithmetic, as exact rationals.                                  *)
(***************************************************************************)
Abs(x) == IF x < 0 THEN -x ELSE x

RECURSIVE GCD(_, _)
GCD(a, b) == IF b = 0 THEN a ELSE GCD(b, a % b)

Norm(n, d) ==
  LET s == IF d < 0 THEN -1 ELSE 1
      g == GCD(Abs(n), Abs(d))
  IN  <<(s * n) \div g, (s * d) \div g>>

R(n) == <<n, 1>>
Q(n, d) == Norm(n, d)
Zero == R(0)
RAdd(a, b) == Norm(a[1] * b[2] + b[1] * a[2], a[2] * b[2])
RNeg(a) == <<-a[1], a[2]>>
RSub(a, b) == RAdd(a, RNeg(b))
RMul(a, b) == Norm(a[1] * b[1], a[2] * b[2])
RDiv(a, b) == Norm(a[1] * b[2], a[2] * b[1])

ZeroVec == [j \in Dims |-> Zero]
OneVec == [j \in Dims |-> R(1)]

(***************************************************************************)
(* The master element's tables: the owning node of every integration       *)
(* point, and the two shape-function tables (rows sum to 1).               *)
(***************************************************************************)
IpNodeMaps == {[ip \in Ips |-> ip], [ip \in Ips |-> nodesPerElement_ - 1]}

shape_fcn ==
  [ip \in Ips |-> [ic \in Nodes |-> IF ic = ip THEN Q(3, 4)
                                     ELSE Q(1, 4 * (nodesPerElement_ - 1))]]

shifted_shape_fcn ==
  [ip \in Ips |-> [ic \in Nodes |-> IF ic = ip THEN R(1) ELSE Zero]]

(***************************************************************************)
(* Field states and the constructor's choice of the n-1 handles.           *)
(***************************************************************************)
States == {"StateNM1", "StateN", "StateNP1"}

Nm1Handle(number_of_states) ==
  IF number_of_states = 2 THEN "StateN" ELSE "StateNM1"

(* A slip: the density's handle chosen by the velocity's state count.       *)
DensityNm1FromVelocity(velocityStates, densityStates) == Nm1Handle(velocityStates)

VelocityNm1(velocityStates, densityStates) == Nm1Handle(velocityStates)
DensityNm1(velocityStates, densityStates) == Nm1Handle(densityStates)

SelectShapeFcn(lumpedMass) ==
  IF lumpedMass THEN shifted_shape_fcn ELSE shape_fcn


(***************************************************************************)
(* State.  The kernel: its field handles, tables, time-step coefficients   *)
(* and the member accumulators v_uNm1_, v_uN_, v_uNp1_, v_Gjp_.  Per       *)
(* calling thread: the position in execute, the locals ip and rho*, the    *)
(* caller's scratch views and lhs/rhs buffers.  lhs0/rhs0 keep what the    *)
(* caller's buffers held when execute was entered, bound tells whether     *)
(* setup has run, calls counts the execute calls made.                     *)
(***************************************************************************)
VARIABLES number_of_states, velocityNm1_, densityNm1_, lumpedMass_,
          ipNodeMap_, v_shape_function_,
          dt_, gamma1_, gamma2_, gamma3_, bound,
          v_uNm1_, v_uN_, v_uNp1_, v_Gjp_,
          pc, loc, scratchViews, lhs, rhs, lhs0, rhs0, calls

config == <<number_of_states, velocityNm1_, densityNm1_, lumpedMass_,
            ipNodeMap_, v_shape_function_>>
coefs == <<dt_, gamma1_, gamma2_, gamma3_, bound>>
members == <<v_uNm1_, v_uN_, v_uNp1_, v_Gjp_>>
caller == <<scratchViews, lhs, rhs, lhs0, rhs0, calls>>
vars == <<config, coefs, members, pc, loc, caller>>

(***************************************************************************)
(* The data the caller gathers for an element, and the buffers it hands    *)
(* in.                                                                     *)
(***************************************************************************)
UniformDensity == [s \in States |-> [ic \in Nodes |-> R(2)]]
VaryingDensity ==
  [s \in States |-> [ic \in Nodes |->
     IF s = "StateNP1" THEN R(1 + ic)
     ELSE IF s = "StateN" THEN R(2 + ic) ELSE R(3 - 2 * ic)]]

UniformVelocity == [s \in States |-> [ic \in Nodes |-> [j \in Dims |-> R(1 + j)]]]
VaryingVelocity ==
  [s \in States |-> [ic \in Nodes |-> [j \in Dims |->
     IF s = "StateNP1" THEN R(1 + ic - j)
     ELSE IF s = "StateN" THEN R(ic + 2 * j) ELSE R(2 + ic + j)]]]

ZeroGradient == [ic \in Nodes |-> [j \in Dims |-> Zero]]
VaryingGradient == [ic \in Nodes |-> [j \in Dims |-> R(1 + 2 * ic - 3 * j)]]

Volumes == {[ip \in Ips |-> Q(1 + ip, 2)]}

Scratches ==
  [density : {UniformDensity, VaryingDensity},
   velocity : {UniformVelocity, VaryingVelocity},
   dpdx : {ZeroGradient, VaryingGradient},
   scv_volume : Volumes]

ZeroRhs == [i \in Rows |-> Zero]
ZeroLhs == [i \in Rows |-> [k \in Rows |-> Zero]]
SiblingRhs == [i \in Rows |-> R(i + 1)]
SiblingLhs == [i \in Rows |-> [k \in Rows |-> R(1 + i - 2 * k)]]

Buffers == {[lhs |-> ZeroLhs, rhs |-> ZeroRhs], [lhs |-> SiblingLhs, rhs |-> SiblingRhs]}

IdleScratch ==
  [density |-> UniformDensity, velocity |-> UniformVelocity,
   dpdx |-> ZeroGradient, scv_volume |-> [ip \in Ips |-> R(1)]]

IdleLoc == [ip |-> 0, rhoNm1 |-> Zero, rhoN |-> Zero, rhoNp1 |-> Zero]

(* TimeIntegrator: the step and the blending coefficients it hands out.    *)
Gammas ==
  {[g1 |-> R(1), g2 |-> R(-1), g3 |-> Zero],
   [g1 |-> Q(3, 2), g2 |-> R(-2), g3 |-> Q(1, 2)],
   [g1 |-> R(2), g2 |-> R(1), g3 |-> R(1)]}

TimeIntegrators == [dt : {R(d) : d \in 1 .. MaxDt}, gamma : Gammas]

(* What dt_ and gamma*_ may hold before any setup.                         *)
UnboundCoefs ==
  {[dt |-> R(1), gamma |-> [g1 |-> R(1), g2 |-> R(1), g3 |-> R(1)]],
   [dt |-> R(2), gamma |-> [g1 |-> R(-1), g2 |-> Zero, g3 |-> R(3)]]}

(***************************************************************************)
(* ScratchViews::get_scratch_view_1D / _2D for a field state.              *)
(***************************************************************************)
get_scratch_view_1D(sv, handle) == sv.density[handle]
get_scratch_view_2D(sv, handle) == sv.velocity[handle]

(***************************************************************************)
(* The steps of execute, as functions.                                     *)
(***************************************************************************)
(* A slip: the accumulators keep what the last integration point left.     *)
KeepAccumulator(old) == old

(* lines 123-128: the accumulators are zeroed for every ip.                *)
ResetAccumulator(old) == [j \in Dims |-> Zero]

(* lines 130-135: rho += r * v_density(ic), ic ascending.                  *)
(* A slip: the node loop starts one node late.                             *)
(* A slip: the node loop starts at the last node.                          *)
LastNodeOnly == nodesPerElement_ - 1

FirstNode == 0

RECURSIVE InterpolateScalarFrom(_, _, _, _)
InterpolateScalarFrom(ic, acc, w, vals) ==
  IF ic >= nodesPerElement_ THEN acc
  ELSE InterpolateScalarFrom(ic + 1, RAdd(acc, RMul(w[ic], vals[ic])), w, vals)

InterpolateScalar(acc, w, vals) == InterpolateScalarFrom(FirstNode, acc, w, vals)

(* lines 136-141: v_u(j) += r * v_velocity(ic, j), ic ascending.           *)
InterpolateVector(acc, w, vals) ==
  [j \in Dims |->
     InterpolateScalarFrom(FirstNode, acc[j], w, [ic \in Nodes |-> vals[ic][j]])]

(* A slip: = for += .                                                      *)
Overwrite(old, delta) == delta

(* lines 148, 163: += .                                                    *)
Accumulate(old, delta) == RAdd(old, delta)

(* A slip: the pressure-gradient term added instead of subtracted.         *)
RhsTermAddsGradient(g1, g2, g3, dt, rNp1, rN, rNm1, uNp1, uN, uNm1, Gjp, scV) ==
  RAdd(
    RDiv(RMul(RNeg(RAdd(RAdd(RMul(RMul(g1, rNp1), uNp1),
                             RMul(RMul(g2, rN), uN)),
                        RMul(RMul(g3, rNm1), uNm1))),
              scV),
         dt),
    RMul(Gjp, scV))

(* A slip: gamma2 and gamma3 weight the wrong time levels.                 *)
RhsTermSwappedLevels(g1, g2, g3, dt, rNp1, rN, rNm1, uNp1, uN, uNm1, Gjp, scV) ==
  RSub(
    RDiv(RMul(RNeg(RAdd(RAdd(RMul(RMul(g1, rNp1), uNp1),
                             RMul(RMul(g3, rN), uN)),
                        RMul(RMul(g2, rNm1), uNm1))),
              scV),
         dt),
    RMul(Gjp, scV))

(* lines 149-152: the right-hand side of the rhs update.                   *)
RhsTerm(g1, g2, g3, dt, rNp1, rN, rNm1, uNp1, uN, uNm1, Gjp, scV) ==
  RSub(
    RDiv(RMul(RNeg(RAdd(RAdd(RMul(RMul(g1, rNp1), uNp1),
                             RMul(RMul(g2, rN), uN)),
                        RMul(RMul(g3, rNm1), uNm1))),
              scV),
         dt),
    RMul(Gjp, scV))

(* A slip: the n density in lhsfac.                                        *)
LhsFacExplicitDensity(r, g1, g2, g3, dt, rNp1, rN, rNm1, scV) ==
  RDiv(RMul(RMul(RMul(r, g1), rN), scV), dt)

(* line 159: lhsfac.                                                       *)
LhsFac(r, g1, g2, g3, dt, rNp1, rN, rNm1, scV) ==
  RDiv(RMul(RMul(RMul(r, g1), rNp1), scV), dt)

(* A slip: the column of the next dimension.                               *)
LhsColNextDim(ic, j) == ic * nDim_ + ((j + 1) % nDim_)

(* lines 145, 162: the row; lines 157, 163: the column.                    *)
LhsRow(nearestNode, j) == nearestNode * nDim_ + j
LhsCol(ic, j) == ic * nDim_ + j

(* lines 147-153, j ascending.                                             *)
RECURSIVE ComputeRhsFrom(_, _, _, _)
ComputeRhsFrom(j, buf, nnNdim, term) ==
  IF j >= nDim_ THEN buf
  ELSE ComputeRhsFrom(j + 1,
         [buf EXCEPT ![nnNdim + j] = Accumulate(@, term[j])], nnNdim, term)

(* lines 156-165, ic ascending, then j ascending.                          *)
RECURSIVE ComputeLhsFrom(_, _, _, _, _)
ComputeLhsFrom(ic, j, buf, nearestNode, fac) ==
  IF ic >= nodesPerElement_ THEN buf
  ELSE IF j >= nDim_ THEN ComputeLhsFrom(ic + 1, 0, buf, nearestNode, fac)
  ELSE ComputeLhsFrom(ic, j + 1,
         [buf EXCEPT ![LhsRow(nearestNode, j)][LhsCol(ic, j)] = Accumulate(@, fac[ic])],
         nearestNode, fac)

(***************************************************************************)
(* One integration point of execute on a frame c: the locals ip and rho*,  *)
(* the member accumulators u* and Gjp, and the caller's lhs and rhs.       *)
(***************************************************************************)
Frame(t) ==
  [ip |-> loc[t].ip, rhoNm1 |-> loc[t].rhoNm1, rhoN |-> loc[t].rhoN,
   rhoNp1 |-> loc[t].rhoNp1,
   uNm1 |-> v_uNm1_, uN |-> v_uN_, uNp1 |-> v_uNp1_, Gjp |-> v_Gjp_,
   lhs |-> lhs[t], rhs |-> rhs[t]]

(* lines 118-128 *)
StepReset(c) ==
  [c EXCEPT !.rhoNm1 = Zero, !.rhoN = Zero, !.rhoNp1 = Zero,
            !.uNm1 = ResetAccumulator(@), !.uN = ResetAccumulator(@),
            !.uNp1 = ResetAccumulator(@), !.Gjp = ResetAccumulator(@)]

(* lines 130-142 *)
StepInterpolate(c, sv) ==
  LET w == v_shape_function_[c.ip]
  IN  [c EXCEPT
        !.rhoNm1 = InterpolateScalar(@, w, get_scratch_view_1D(sv, densityNm1_)),
        !.rhoN = InterpolateScalar(@, w, get_scratch_view_1D(sv, "StateN")),
        !.rhoNp1 = InterpolateScalar(@, w, get_scratch_view_1D(sv, "StateNP1")),
        !.uNm1 = InterpolateVector(@, w, get_scratch_view_2D(sv, velocityNm1_)),
        !.uN = InterpolateVector(@, w, get_scratch_view_2D(sv, "StateN")),
        !.uNp1 = InterpolateVector(@, w, get_scratch_view_2D(sv, "StateNP1")),
        !.Gjp = InterpolateVector(@, w, sv.dpdx)]

(* lines 144-153 *)
StepRhs(c, sv) ==
  LET scV == sv.scv_volume[c.ip]
      nnNdim == ipNodeMap_[c.ip] * nDim_
      term == [j \in Dims |->
                 RhsTerm(gamma1_, gamma2_, gamma3_, dt_, c.rhoNp1, c.rhoN, c.rhoNm1,
                         c.uNp1[j], c.uN[j], c.uNm1[j], c.Gjp[j], scV)]
  IN  [c EXCEPT !.rhs = ComputeRhsFrom(0, @, nnNdim, term)]

(* lines 155-166 *)
StepLhs(c, sv) ==
  LET scV == sv.scv_volume[c.ip]
      fac == [ic \in Nodes |->
                LhsFac(v_shape_function_[c.ip][ic], gamma1_, gamma2_, gamma3_, dt_,
                       c.rhoNp1, c.rhoN, c.rhoNm1, scV)]
  IN  [c EXCEPT !.lhs = ComputeLhsFrom(0, 0, @, ipNodeMap_[c.ip], fac),
                !.ip = @ + 1]

(* lines 117-166: execute from integration point c.ip on, run alone.       *)
RECURSIVE ExecuteFrom(_, _)
ExecuteFrom(c, sv) ==
  IF c.ip >= numScvIp_ THEN c
  ELSE ExecuteFrom(StepLhs(StepRhs(StepInterpolate(StepReset(c), sv), sv), sv), sv)

(***************************************************************************)
(* Actions.                                                                *)
(***************************************************************************)
Store(t, c) ==
  /\ loc' = [loc EXCEPT ![t] = [ip |-> c.ip, rhoNm1 |-> c.rhoNm1,
                                rhoN |-> c.rhoN, rhoNp1 |-> c.rhoNp1]]
  /\ v_uNm1_' = c.uNm1
  /\ v_uN_' = c.uN
  /\ v_uNp1_' = c.uNp1
  /\ v_Gjp_' = c.Gjp
  /\ lhs' = [lhs EXCEPT ![t] = c.lhs]
  /\ rhs' = [rhs EXCEPT ![t] = c.rhs]

(* lines 89-97.  The caller binds the step while no element is evaluated.  *)
Setup ==
  /\ \A t \in Threads : pc[t] = "idle"
  /\ \E ti \in TimeIntegrators :
       /\ dt_' = ti.dt
       /\ gamma1_' = ti.gamma.g1
       /\ gamma2_' = ti.gamma.g2
       /\ gamma3_' = ti.gamma.g3
  /\ bound' = TRUE
  /\ UNCHANGED <<config, members, pc, loc, caller>>

(* lines 99-117: the caller enters execute with its scratch and buffers.   *)
Enter(t, scratches, buffers) ==
  /\ pc[t] = "idle"
  /\ calls < MaxCalls
  /\ \E sv \in scratches, b \in buffers :
       /\ scratchViews' = [scratchViews EXCEPT ![t] = sv]
       /\ lhs' = [lhs EXCEPT ![t] = b.lhs]
       /\ rhs' = [rhs EXCEPT ![t] = b.rhs]
       /\ lhs0' = [lhs0 EXCEPT ![t] = b.lhs]
       /\ rhs0' = [rhs0 EXCEPT ![t] = b.rhs]
  /\ loc' = [loc EXCEPT ![t] = IdleLoc]
  /\ pc' = [pc EXCEPT ![t] = IF 0 < numScvIp_ THEN "reset" ELSE "done"]
  /\ calls' = calls + 1
  /\ UNCHANGED <<config, coefs, members>>

ExecuteCall(t) == Enter(t, Scratches, Buffers)

ResetIp(t) ==
  /\ pc[t] = "reset"
  /\ Store(t, StepReset(Frame(t)))
  /\ pc' = [pc EXCEPT ![t] = "interp"]
  /\ UNCHANGED <<config, coefs, scratchViews, lhs0, rhs0, calls>>

Interpolate(t) ==
  /\ pc[t] = "interp"
  /\ Store(t, StepInterpolate(Frame(t), scratchViews[t]))
  /\ pc' = [pc EXCEPT ![t] = "rhs"]
  /\ UNCHANGED <<config, coefs, scratchViews, lhs0, rhs0, calls>>

ComputeRhs(t) ==
  /\ pc[t] = "rhs"
  /\ Store(t, StepRhs(Frame(t), scratchViews[t]))
  /\ pc' = [pc EXCEPT ![t] = "lhs"]
  /\ UNCHANGED <<config, coefs, scratchViews, lhs0, rhs0, calls>>

ComputeLhs(t) ==
  /\ pc[t] = "lhs"
  /\ Store(t, StepLhs(Frame(t), scratchViews[t]))
  /\ pc' = [pc EXCEPT ![t] = IF loc[t].ip + 1 < numScvIp_ THEN "reset" ELSE "done"]
  /\ UNCHANGED <<config, coefs, scratchViews, lhs0, rhs0, calls>>

(* line 167: execute returns; the caller assembles the element's buffers   *)
(* into the global system and discards them with the scratch.              *)
Return(t) ==
  /\ pc[t] = "done"
  /\ pc' = [pc EXCEPT ![t] = "idle"]
  /\ loc' = [loc EXCEPT ![t] = IdleLoc]
  /\ scratchViews' = [scratchViews EXCEPT ![t] = IdleScratch]
  /\ lhs' = [lhs EXCEPT ![t] = ZeroLhs]
  /\ rhs' = [rhs EXCEPT ![t] = ZeroRhs]
  /\ lhs0' = [lhs0 EXCEPT ![t] = ZeroLhs]
  /\ rhs0' = [rhs0 EXCEPT ![t] = ZeroRhs]
  /\ UNCHANGED <<config, coefs, members, calls>>

(***************************************************************************)
(* The kernel after construction (lines 27-83), before any setup.          *)
(***************************************************************************)
Constructed(velocityStates, densityStates, lumpedMass, map) ==
  /\ number_of_states = [velocity |-> velocityStates, density |-> densityStates]
  /\ velocityNm1_ = VelocityNm1(velocityStates, densityStates)
  /\ densityNm1_ = DensityNm1(velocityStates, densityStates)
  /\ lumpedMass_ = lumpedMass
  /\ ipNodeMap_ = map
  /\ v_shape_function_ = SelectShapeFcn(lumpedMass)

NoCalls ==
  /\ pc = [t \in Threads |-> "idle"]
  /\ loc = [t \in Threads |-> IdleLoc]
  /\ scratchViews = [t \in Threads |-> IdleScratch]
  /\ lhs = [t \in Threads |-> ZeroLhs]
  /\ rhs = [t \in Threads |-> ZeroRhs]
  /\ lhs0 = [t \in Threads |-> ZeroLhs]
  /\ rhs0 = [t \in Threads |-> ZeroRhs]
  /\ calls = 0

Init ==
  /\ \E vs \in {2, 3}, ds \in {2, 3}, lm \in BOOLEAN, map \in IpNodeMaps :
       Constructed(vs, ds, lm, map)
  /\ \E u \in UnboundCoefs :
       /\ dt_ = u.dt
       /\ gamma1_ = u.gamma.g1
       /\ gamma2_ = u.gamma.g2
       /\ gamma3_ = u.gamma.g3
  /\ bound = FALSE
  /\ \E m \in {ZeroVec, OneVec} :
       /\ v_uNm1_ = m
       /\ v_uN_ = m
       /\ v_uNp1_ = m
       /\ v_Gjp_ = m
  /\ NoCalls

(* One caller: the element evaluations follow one another.                 *)
Next ==
  \/ Setup
  \/ ExecuteCall(1)
  \/ ResetIp(1)
  \/ Interpolate(1)
  \/ ComputeRhs(1)
  \/ ComputeLhs(1)
  \/ Return(1)

Spec == Init /\ [][Next]_vars

(***************************************************************************)
(* Two callers on one kernel after a setup: the steps of the two element   *)
(* evaluations interleave.  Each caller has its own scratch views and      *)
(* lhs/rhs; the member accumulators belong to the kernel.                  *)
(***************************************************************************)
ConcScratches ==
  {[density |-> VaryingDensity, velocity |-> v, dpdx |-> VaryingGradient,
    scv_volume |-> vol] : v \in {UniformVelocity, VaryingVelocity}, vol \in Volumes}

ExecuteCallConc(t) == Enter(t, ConcScratches, {[lhs |-> ZeroLhs, rhs |-> ZeroRhs]})

InitConc ==
  /\ \E lm \in BOOLEAN : Constructed(3, 3, lm, [ip \in Ips |-> ip])
  /\ \E ti \in TimeIntegrators :
       /\ dt_ = ti.dt
       /\ gamma1_ = ti.gamma.g1
       /\ gamma2_ = ti.gamma.g2
       /\ gamma3_ = ti.gamma.g3
  /\ bound = TRUE
  /\ v_uNm1_ = ZeroVec
  /\ v_uN_ = ZeroVec
  /\ v_uNp1_ = ZeroVec
  /\ v_Gjp_ = ZeroVec
  /\ NoCalls

NextConc ==
  \E t \in Threads :
    \/ ExecuteCallConc(t)
    \/ ResetIp(t)
    \/ Interpolate(t)
    \/ ComputeRhs(t)
    \/ ComputeLhs(t)
    \/ Return(t)

SpecConc == InitConc /\ [][NextConc]_vars

(***************************************************************************)
(* What the properties below are stated with.                              *)
(***************************************************************************)
RECURSIVE RSum(_, _)
RSum(S, f) ==
  IF S = {} THEN Zero
  ELSE LET x == CHOOSE y \in S : TRUE IN RAdd(f[x], RSum(S \ {x}, f))

(* The shape-function-weighted sum of nodal values at ip.                  *)
Weighted(ip, vals) ==
  RSum(Nodes, [ic \in Nodes |-> RMul(v_shape_function_[ip][ic], vals[ic])])

Component(view, j) == [ic \in Nodes |-> view[ic][j]]

OwnedBy(n, ips) == {ip \in ips : ipNodeMap_[ip] = n}

(* The integration points whose residual, resp. Jacobian, update is done.  *)
RhsDone(t) ==
  {ip \in Ips : ip < loc[t].ip \/ (ip = loc[t].ip /\ pc[t] = "lhs")}
LhsDone(t) == {ip \in Ips : ip < loc[t].ip}

(* (g1 rhoNp1 uNp1_j + g2 rhoN uN_j + g3 rhoNm1 uNm1_j) scV/dt + Gjp_j scV *)
IpQuantity(sv, ip, j) ==
  LET rhoNp1 == Weighted(ip, sv.density["StateNP1"])
      rhoN == Weighted(ip, sv.density["StateN"])
      rhoNm1 == Weighted(ip, sv.density[densityNm1_])
      uNp1 == Weighted(ip, Component(sv.velocity["StateNP1"], j))
      uN == Weighted(ip, Component(sv.velocity["StateN"], j))
      uNm1 == Weighted(ip, Component(sv.velocity[velocityNm1_], j))
      Gjp == Weighted(ip, Component(sv.dpdx, j))
      scV == sv.scv_volume[ip]
      inertia == RAdd(RMul(gamma1_, RMul(rhoNp1, uNp1)),
                      RAdd(RMul(gamma2_, RMul(rhoN, uN)),
                           RMul(gamma3_, RMul(rhoNm1, uNm1))))
  IN  RAdd(RMul(inertia, RDiv(scV, dt_)), RMul(Gjp, scV))

(* weight(ip, ic) gamma1 rhoNp1 scV/dt                                     *)
JacobianQuantity(sv, ip, ic) ==
  RMul(RMul(v_shape_function_[ip][ic], gamma1_),
       RMul(Weighted(ip, sv.density["StateNP1"]), RDiv(sv.scv_volume[ip], dt_)))

(* execute run alone on the caller's data, from the buffers given.         *)
Alone(sv, lhsBuf, rhsBuf) ==
  ExecuteFrom([ip |-> 0, rhoNm1 |-> Zero, rhoN |-> Zero, rhoNp1 |-> Zero,
               uNm1 |-> ZeroVec, uN |-> ZeroVec, uNp1 |-> ZeroVec, Gjp |-> ZeroVec,
               lhs |-> lhsBuf, rhs |-> rhsBuf], sv)

(***************************************************************************)
(* C1: at every point of an execute call, every residual entry (node n,    *)
(* dimension j) equals its value on entry minus the sum, over the          *)
(* integration points processed so far (ascending) that n owns, of         *)
(* (g1 rhoNp1 uNp1_j + g2 rhoN uN_j + g3 rhoNm1 uNm1_j) scV/dt + Gjp_j scV *)
(* with interpolated rho, u, Gjp; entries of nodes owning no ip keep their *)
(* value.                                                                  *)
(***************************************************************************)
ResidualSubtractsIpQuantities ==
  \A t \in Threads : \A n \in Nodes : \A j \in Dims :
    rhs[t][n * nDim_ + j] =
      RSub(rhs0[t][n * nDim_ + j],
           RSum(OwnedBy(n, RhsDone(t)),
                [ip \in Ips |-> IpQuantity(scratchViews[t], ip, j)]))

ResidualWitness ==
  /\ pc[1] = "done"
  /\ \E n \in Nodes : OwnedBy(n, Ips) = {}
  /\ \E n \in Nodes : Cardinality(OwnedBy(n, Ips)) > 1
  /\ scratchViews[1].density = VaryingDensity
  /\ scratchViews[1].velocity = VaryingVelocity
  /\ scratchViews[1].dpdx = VaryingGradient
  /\ gamma3_ # Zero
  /\ \E i \in Rows : rhs[1][i] # rhs0[1][i]
  /\ \E i \in Rows : rhs[1][i] = rhs0[1][i] /\ rhs0[1][i] # Zero

(***************************************************************************)
(* C2: the Jacobian entry at row (n, j), column (ic, j) equals its value   *)
(* on entry plus the sum, over the processed integration points n owns, of *)
(* weight(ip, ic) gamma1 rhoNp1 scV/dt: nothing of the n or n-1 density,   *)
(* the velocities, the pressure gradient, gamma2 or gamma3 enters.         *)
(***************************************************************************)
JacobianAddsImplicitDensity ==
  \A t \in Threads : \A n \in Nodes : \A ic \in Nodes : \A j \in Dims :
    lhs[t][n * nDim_ + j][ic * nDim_ + j] =
      RAdd(lhs0[t][n * nDim_ + j][ic * nDim_ + j],
           RSum(OwnedBy(n, LhsDone(t)),
                [ip \in Ips |-> JacobianQuantity(scratchViews[t], ip, ic)]))

JacobianWitness ==
  /\ pc[1] = "done"
  /\ scratchViews[1].density = VaryingDensity
  /\ scratchViews[1].velocity = VaryingVelocity
  /\ ~lumpedMass_
  /\ gamma2_ # Zero
  /\ gamma3_ # Zero
  /\ \A n \in Nodes : \A ic \in Nodes : \A j \in Dims :
       lhs[1][n * nDim_ + j][ic * nDim_ + j] # lhs0[1][n * nDim_ + j][ic * nDim_ + j]

(***************************************************************************)
(* C3: a Jacobian entry whose row is dimension j of a node and whose       *)
(* column is dimension k # j of a node always holds what it held on entry  *)
(* (zero for a zeroed buffer).                                             *)
(***************************************************************************)
JacobianBlockDiagonal ==
  \A t \in Threads : \A n \in Nodes : \A ic \in Nodes : \A j \in Dims : \A k \in Dims :
    j # k => lhs[t][n * nDim_ + j][ic * nDim_ + k] = lhs0[t][n * nDim_ + j][ic * nDim_ + k]

BlockDiagonalWitness ==
  /\ pc[1] = "done"
  /\ lhs0[1] = ZeroLhs
  /\ \E i \in Rows : \E k \in Rows : lhs[1][i][k] # Zero
  /\ \A n \in Nodes : \A ic \in Nodes : \A j \in Dims : \A k \in Dims :
       j # k => lhs[1][n * nDim_ + j][ic * nDim_ + k] = Zero

(***************************************************************************)
(* C4: after execute the buffers hold what they held on entry plus what    *)
(* execute produces on zeroed buffers from the same inputs.                *)
(***************************************************************************)
AccumulateOnly ==
  \A t \in Threads :
    pc[t] = "done" =>
      LET z == Alone(scratchViews[t], ZeroLhs, ZeroRhs)
      IN  /\ \A i \in Rows : rhs[t][i] = RAdd(rhs0[t][i], z.rhs[i])
          /\ \A i \in Rows : \A k \in Rows :
               lhs[t][i][k] = RAdd(lhs0[t][i][k], z.lhs[i][k])

AccumulateWitness ==
  /\ pc[1] = "done"
  /\ rhs0[1] = SiblingRhs
  /\ lhs0[1] = SiblingLhs
  /\ rhs[1] # rhs0[1]
  /\ lhs[1] # lhs0[1]

(***************************************************************************)
(* C5: two execute calls on one kernel, each with its own scratch and      *)
(* buffers, interleaved in any way, both end with the residual and         *)
(* Jacobian that the calls give when each runs alone.                      *)
(***************************************************************************)
ConcurrentAsAlone ==
  (\A t \in Threads : pc[t] = "done") =>
    \A t \in Threads :
      LET a == Alone(scratchViews[t], lhs0[t], rhs0[t])
      IN  rhs[t] = a.rhs /\ lhs[t] = a.lhs

(***************************************************************************)
(* C6: an execute call made before any setup accumulates nothing into the  *)
(* caller's residual and Jacobian (it is stopped first).                   *)
(***************************************************************************)
UnboundExecuteStopped ==
  \A t \in Threads :
    (pc[t] # "idle" /\ ~bound) => (rhs[t] = rhs0[t] /\ lhs[t] = lhs0[t])

(***************************************************************************)
(* C7: with gamma3 = 0, execute on inputs that differ from the call's only *)
(* in the gathered n-1 density and n-1 velocity ends with the same         *)
(* residual and Jacobian as the call.                                      *)
(***************************************************************************)
OtherNm1(sv) ==
  {[sv EXCEPT !.density["StateNM1"] = d["StateNM1"],
              !.velocity["StateNM1"] = v["StateNM1"]] :
     d \in {UniformDensity, VaryingDensity}, v \in {UniformVelocity, VaryingVelocity}}

Gamma3ZeroIgnoresNm1 ==
  \A t \in Threads :
    (pc[t] = "done" /\ gamma3_ = Zero) =>
      \A sv \in OtherNm1(scratchViews[t]) :
        LET a == Alone(sv, lhs0[t], rhs0[t])
        IN  rhs[t] = a.rhs /\ lhs[t] = a.lhs

Gamma3ZeroWitness ==
  /\ pc[1] = "done"
  /\ bound
  /\ gamma3_ = Zero
  /\ gamma2_ # Zero
  /\ number_of_states = [velocity |-> 3, density |-> 3]
  /\ scratchViews[1].density = VaryingDensity
  /\ scratchViews[1].velocity = VaryingVelocity
  /\ rhs[1] # rhs0[1]
  /\ \E sv \in OtherNm1(scratchViews[1]) :
       /\ sv.density["StateNM1"] # scratchViews[1].density["StateNM1"]
       /\ sv.velocity["StateNM1"] # scratchViews[1].velocity["StateNM1"]

(***************************************************************************)
(* C8: each field's n-1 handle is its n handle iff that field has two      *)
(* states, whatever the other field has; once an integration point is      *)
(* interpolated, an aliased field's n-1 value equals its n value and a     *)
(* three-state field's n-1 value is the weighted sum of its own n-1 nodal  *)
(* values.                                                                 *)
(***************************************************************************)
TwoStateAliasing ==
  /\ velocityNm1_ = (IF number_of_states.velocity = 2 THEN "StateN" ELSE "StateNM1")
  /\ densityNm1_ = (IF number_of_states.density = 2 THEN "StateN" ELSE "StateNM1")
  /\ \A t \in Threads :
       pc[t] = "rhs" =>
         /\ IF number_of_states.density = 2
              THEN loc[t].rhoNm1 = loc[t].rhoN
              ELSE loc[t].rhoNm1 =
                     Weighted(loc[t].ip, scratchViews[t].density["StateNM1"])
         /\ IF number_of_states.velocity = 2
              THEN v_uNm1_ = v_uN_
              ELSE \A j \in Dims :
                     v_uNm1_[j] =
                       Weighted(loc[t].ip,
                                Component(scratchViews[t].velocity["StateNM1"], j))

AliasingWitness ==
  /\ pc[1] = "rhs"
  /\ number_of_states = [velocity |-> 3, density |-> 2]
  /\ scratchViews[1].density = VaryingDensity
  /\ scratchViews[1].velocity = VaryingVelocity
  /\ loc[1].rhoNm1 = loc[1].rhoN
  /\ loc[1].rhoNm1 # Weighted(loc[1].ip, scratchViews[1].density["StateNM1"])
  /\ v_uNm1_ # v_uN_

(***************************************************************************)
(* C9: the accumulators are zero when the node loop of an integration     *)
(* point starts, and an execute call on zeroed buffers ends with the       *)
(* residual and Jacobian that execute gives from the same inputs on a      *)
(* kernel whose accumulators no earlier call has touched.                  *)
(***************************************************************************)
RepeatableEvaluation ==
  \A t \in Threads :
    /\ pc[t] = "interp" =>
         /\ v_uNm1_ = ZeroVec /\ v_uN_ = ZeroVec /\ v_uNp1_ = ZeroVec /\ v_Gjp_ = ZeroVec
         /\ loc[t].rhoNm1 = Zero /\ loc[t].rhoN = Zero /\ loc[t].rhoNp1 = Zero
    /\ (pc[t] = "done" /\ rhs0[t] = ZeroRhs /\ lhs0[t] = ZeroLhs) =>
         LET a == Alone(scratchViews[t], ZeroLhs, ZeroRhs)
         IN  rhs[t] = a.rhs /\ lhs[t] = a.lhs

RepeatableWitness ==
  /\ calls > 1
  /\ pc[1] = "done"
  /\ rhs0[1] = ZeroRhs
  /\ lhs0[1] = ZeroLhs
  /\ rhs[1] # ZeroRhs
  /\ scratchViews[1].velocity = UniformVelocity
  /\ scratchViews[1].dpdx = ZeroGradient

(***************************************************************************)
(* C10: for an element whose density rho and velocity u are the same at    *)
(* all nodes and time levels, execute subtracts from the residual entry    *)
(* (n, j), for every integration point n owns,                             *)
(* (g1 + g2 + g3) rho u_j scV/dt + Gjp_j scV.                              *)
(***************************************************************************)
UniformQuantity(sv, ip, j) ==
  LET rho == sv.density["StateN"][0]
      u == sv.velocity["StateN"][0][j]
      gsum == RAdd(gamma1_, RAdd(gamma2_, gamma3_))
  IN  RAdd(RDiv(RMul(RMul(gsum, RMul(rho, u)), sv.scv_volume[ip]), dt_),
           RMul(Weighted(ip, Component(sv.dpdx, j)), sv.scv_volume[ip]))

IsUniform(sv) ==
  /\ \A s \in States : \A ic \in Nodes : sv.density[s][ic] = sv.density["StateN"][0]
  /\ \A s \in States : \A ic \in Nodes : sv.velocity[s][ic] = sv.velocity["StateN"][0]

UniformElementResidual ==
  \A t \in Threads :
    (pc[t] = "done" /\ IsUniform(scratchViews[t])) =>
      \A n \in Nodes : \A j \in Dims :
        rhs[t][n * nDim_ + j] =
          RSub(rhs0[t][n * nDim_ + j],
               RSum(OwnedBy(n, Ips),
                    [ip \in Ips |-> UniformQuantity(scratchViews[t], ip, j)]))

UniformWitness ==
  /\ pc[1] = "done"
  /\ IsUniform(scratchViews[1])
  /\ ~lumpedMass_
  /\ scratchViews[1].dpdx = VaryingGradient
  /\ bound
  /\ gamma3_ # Zero
  /\ RAdd(gamma1_, RAdd(gamma2_, gamma3_)) # Zero
  /\ \A ip \in Ips : ipNodeMap_[ip] = ip
  /\ \A i \in Rows : rhs[1][i] # rhs0[1][i]

====
